---- MODULE Spec2Model ----
(***************************************************************************)
(* Model of backend/app/main.py: the /upload-pdf and /chat handlers and    *)
(* the JSON interaction log (data/conversations.json).                     *)
(*                                                                         *)
(* Text is a sequence of one-character strings, so that concatenation,    *)
(* slicing and line structure are computed rather than assumed.  The log  *)
(* file is the sequence of tokens json.dump writes; json.load is a parser *)
(* over that sequence.                                                     *)
(***************************************************************************)
EXTENDS Integers, Sequences, FiniteSets, TLC

\* ------------------------------------------------------------------ bounds
MaxCalls   == 2    \* save_interaction calls followed in one behaviour
MaxHistory == 2    \* prior turns in a chat request (prompt specification)
MaxStrLen  == 1    \* length of a turn's content / of the question (prompt specification)

\* ------------------------------------------------------------------- text
NL        == "\n"
Surrogate == "\\ud800"   \* a lone surrogate: a str character UTF-8 cannot encode

StrUpTo(S, n) == UNION {[1..k -> S] : k \in 0..n}

RECURSIVE Count(_, _)
Count(s, c) == IF s = <<>> THEN 0
               ELSE (IF Head(s) = c THEN 1 ELSE 0) + Count(Tail(s), c)

IsPrefix(s, t) == Len(s) <= Len(t) /\ SubSeq(t, 1, Len(s)) = s
IsSuffix(s, t) == Len(s) <= Len(t) /\ SubSeq(t, Len(t) - Len(s) + 1, Len(t)) = s

Encodable(s) == \A i \in 1..Len(s) : s[i] # Surrogate

Min(a, b) == IF a <= b THEN a ELSE b

\* --------------------------------------------------- JSON text of the log
\* A Python dict is an ordered sequence of <<key, value>> pairs; every value
\* this program stores is a str.  Tokens of the file, in writing order:
TLBracket == [t |-> "["]
TRBracket == [t |-> "]"]
TLBrace   == [t |-> "{"]
TRBrace   == [t |-> "}"]
TComma    == [t |-> ","]
TNull     == [t |-> "null"]
TKey(k)   == [t |-> "key", k |-> k]      \* "k": (the key and its colon)
TStr(s)   == [t |-> "str", s |-> s]

RECURSIVE DumpPairs(_)
DumpPairs(d) ==
    IF d = <<>> THEN <<>>
    ELSE <<TKey(Head(d)[1]), TStr(Head(d)[2])>>
         \o (IF Tail(d) = <<>> THEN <<>> ELSE <<TComma>> \o DumpPairs(Tail(d)))

DumpDict(d) == <<TLBrace>> \o DumpPairs(d) \o <<TRBrace>>

RECURSIVE DumpElems(_)
DumpElems(l) ==
    IF l = <<>> THEN <<>>
    ELSE DumpDict(Head(l))
         \o (IF Tail(l) = <<>> THEN <<>> ELSE <<TComma>> \o DumpElems(Tail(l)))

RECURSIVE Reverse(_)
Reverse(l) == IF l = <<>> THEN <<>> ELSE Append(Reverse(Tail(l)), Head(l))

\* the newest record is written first
json_dumpMut(l) == <<TLBracket>> \o DumpElems(Reverse(l)) \o <<TRBracket>>

\* the chunks json.dump(conversations, f, indent=2, ensure_ascii=False) hands to f.write
json_dump(l) == <<TLBracket>> \o DumpElems(l) \o <<TRBracket>>

ParseFail == [ok |-> FALSE]

\* pairs of an object, positioned on a key
RECURSIVE ParsePairs(_, _, _)
ParsePairs(toks, i, acc) ==
    IF i + 2 > Len(toks) THEN ParseFail
    ELSE IF toks[i].t # "key" \/ toks[i + 1].t # "str" THEN ParseFail
    ELSE LET acc2 == Append(acc, <<toks[i].k, toks[i + 1].s>>) IN
         IF toks[i + 2].t = "}" THEN [ok |-> TRUE, val |-> acc2, next |-> i + 3]
         ELSE IF toks[i + 2].t = "," THEN ParsePairs(toks, i + 3, acc2)
         ELSE ParseFail

ParseDict(toks, i) ==
    IF i + 1 > Len(toks) THEN ParseFail
    ELSE IF toks[i].t # "{" THEN ParseFail
    ELSE IF toks[i + 1].t = "}" THEN [ok |-> TRUE, val |-> <<>>, next |-> i + 2]
    ELSE ParsePairs(toks, i + 1, <<>>)

\* elements of an array, positioned on an element; e is that element, parsed
RECURSIVE ParseElems(_, _, _)
AfterElem(toks, e, acc) ==
    IF ~e.ok THEN ParseFail
    ELSE IF e.next > Len(toks) THEN ParseFail
    ELSE IF toks[e.next].t = "]"
         THEN [ok |-> TRUE, val |-> Append(acc, e.val), next |-> e.next + 1]
    ELSE IF toks[e.next].t = ","
         THEN ParseElems(toks, e.next + 1, Append(acc, e.val))
    ELSE ParseFail

ParseElems(toks, i, acc) == AfterElem(toks, ParseDict(toks, i), acc)

\* a parsed object or array as a JSON value of its kind
Tagged(kind, v) ==
    IF v.ok THEN [ok |-> TRUE, kind |-> kind, val |-> v.val, next |-> v.next]
    ELSE ParseFail

ParseValue(toks) ==
    IF toks = <<>> THEN ParseFail
    ELSE IF toks[1].t = "null" THEN [ok |-> TRUE, kind |-> "null", val |-> <<>>, next |-> 2]
    ELSE IF toks[1].t = "{" THEN Tagged("dict", ParseDict(toks, 1))
    ELSE IF toks[1].t = "["
         THEN IF Len(toks) >= 2 /\ toks[2].t = "]"
              THEN [ok |-> TRUE, kind |-> "list", val |-> <<>>, next |-> 3]
              ELSE Tagged("list", ParseElems(toks, 2, <<>>))
    ELSE ParseFail

\* the value is the whole text: trailing data is a JSONDecodeError too
WholeText(v, toks) ==
    IF v.ok /\ v.next = Len(toks) + 1 THEN [ok |-> TRUE, kind |-> v.kind, val |-> v.val]
    ELSE ParseFail

\* json.load(f): ok = FALSE stands for json.JSONDecodeError
json_load(toks) == WholeText(ParseValue(toks), toks)

\* ------------------------------------------------------- the log on disk
Absent == [exists |-> FALSE, content |-> <<>>]
FileOf(toks) == [exists |-> TRUE, content |-> toks]

\* outcomes of the operating system during one save_interaction call
IoOk          == [kind |-> "ok", at |-> 0]
IoReadError   == [kind |-> "read_error", at |-> 0]    \* open(DATA_FILE, "r") raises OSError
IoOpenWError  == [kind |-> "open_w_error", at |-> 0]  \* open(DATA_FILE, "w") raises OSError
IoWriteError(k) == [kind |-> "write_error", at |-> k] \* f.write raises OSError with k chunks written

MakeRecord(now, doc_id, question, answer) ==
    << <<"timestamp", now>>, <<"doc_id", doc_id>>,
       <<"question", question>>, <<"answer", answer>> >>

\* index of the first chunk the UTF-8 file cannot take, Len + 1 when there is none
RECURSIVE FirstUnencodable(_, _)
FirstUnencodable(toks, i) ==
    IF i > Len(toks) THEN i
    ELSE IF toks[i].t = "str" /\ ~Encodable(toks[i].s) THEN i
    ELSE FirstUnencodable(toks, i + 1)

\* f.write of the chunks, one after the other, up to the first that raises:
\* bad is the first chunk UTF-8 cannot encode, io may fail an earlier one
WriteChunks(toks, bad, io) ==
    IF io.kind = "write_error" /\ io.at + 1 < bad /\ io.at + 1 <= Len(toks)
    THEN [file |-> FileOf(SubSeq(toks, 1, io.at)), raised |-> "OSError"]
    ELSE IF bad <= Len(toks)
    THEN [file |-> FileOf(SubSeq(toks, 1, bad - 1)), raised |-> "UnicodeEncodeError"]
    ELSE [file |-> FileOf(toks), raised |-> "none"]

Dump(file, toks, io) ==
    IF io.kind = "open_w_error" THEN [file |-> file, raised |-> "OSError"]
    ELSE WriteChunks(toks, FirstUnencodable(toks, 1), io)

\* what is in the file at the time of writing, or the snapshot if it is not a list
Merged(now_in_file, conversations) ==
    IF now_in_file.ok /\ now_in_file.kind = "list"
    THEN Append(now_in_file.val, conversations[Len(conversations)])
    ELSE conversations

\* the new record is added to whatever the file holds at the time of writing
WriteLogMut(file, conversations, io) ==
    Dump(file, json_dump(Merged(json_load(file.content), conversations)), io)

\* open(DATA_FILE, "w") truncates; json.dump then writes chunk by chunk and
\* stops at the first chunk whose write raises.
WriteLog(file, conversations, io) == Dump(file, json_dump(conversations), io)

\* json.JSONDecodeError is not caught
LoadedMut(r) ==
    IF r.ok THEN [raised |-> "none", kind |-> r.kind, val |-> r.val]
    ELSE [raised |-> "JSONDecodeError", kind |-> "list", val |-> <<>>]

\* try: conversations = json.load(f) except json.JSONDecodeError: conversations = []
Loaded(r) ==
    IF r.ok THEN [raised |-> "none", kind |-> r.kind, val |-> r.val]
    ELSE [raised |-> "none", kind |-> "list", val |-> <<>>]

\* conversations = []; if DATA_FILE.exists(): with open(DATA_FILE, "r") ...
ReadLog(file, io) ==
    IF ~file.exists THEN [raised |-> "none", kind |-> "list", val |-> <<>>]
    ELSE IF io.kind = "read_error" THEN [raised |-> "OSError", kind |-> "list", val |-> <<>>]
    ELSE Loaded(json_load(file.content))

\* conversations.append(record), then the rewrite; rd is what the read gave
AppendAndWrite(file, rd, record, io) ==
    IF rd.raised # "none" THEN [file |-> file, raised |-> rd.raised]
    ELSE IF rd.kind # "list" THEN [file |-> file, raised |-> "AttributeError"]
    ELSE WriteLog(file, Append(rd.val, record), io)

\* save_interaction: the file it leaves and the exception it raises ("none" on return)
save_interaction(file, now, doc_id, question, answer, io) ==
    AppendAndWrite(file, ReadLog(file, io), MakeRecord(now, doc_id, question, answer), io)

\* ------------------------------------------------------------- constants
PdfType      == "application/pdf"
TempDir      == "tmp_uploads"
SnippetLimit == 200
FileMustBePdf == <<"F", "i", "l", "e", " ", "m", "u", "s", "t", " ", "b", "e", " ",
                   "a", " ", "P", "D", "F", ".">>
ProcessedMsg  == <<"P", "D", "F", " ", "p", "r", "o", "c", "e", "s", "s", "e", "d", " ",
                   "s", "u", "c", "c", "e", "s", "s", "f", "u", "l", "l", "y">>
BuildErrPrefix == <<"E", "r", "r", "o", "r", " ", "b", "u", "i", "l", "d", "i", "n", "g", " ",
                    "Q", "A", " ", "c", "h", "a", "i", "n", ":", " ">>
UserPrefix      == <<"U", "s", "e", "r">>
AssistantPrefix == <<"A", "s", "s", "i", "s", "t", "a", "n", "t">>
ColonSpace      == <<":", " ">>
Ellipsis        == <<".", ".", ".">>

\* ------------------------------------------------------------- responses
HTTPException(status, detail) ==
    [kind |-> "HTTPException", status_code |-> status, detail |-> detail]
\* an exception that leaves the handler without being translated
Escaped(type, text) == [kind |-> "exception", type |-> type, text |-> text]
NoResponse == [kind |-> "none"]

\* ------------------------------------------------------------ /upload-pdf
\* os.path.join(temp_dir, file.filename), for a plain file name
PathJoin(dir, name) == <<dir, name>>

\* finally: if os.path.exists(file_path): os.remove(file_path)
FinallyMut(files, file_path, ingest) ==
    IF ingest.kind = "raise" THEN files ELSE files \ {file_path}

Finally(files, file_path, ingest) ==
    IF file_path \in files THEN files \ {file_path} ELSE files

\* upload_pdf past the content-type check, as a function of what the disk
\* does while the upload is copied and of what ingest_pdf does with the path
SaveAndIngest(files, filename, copy, ingest) ==
    LET file_path == PathJoin(TempDir, filename)
        written   == files \cup {file_path}
        ingested  == IF ingest.removes THEN written \ {file_path} ELSE written
        cleaned   == Finally(ingested, file_path, ingest)
    IN  IF copy = "open_error"
        THEN [response |-> Escaped("OSError", <<>>), files |-> files,
              wrote |-> FALSE, ingest_calls |-> 0]
        ELSE IF copy = "copy_error"
        THEN [response |-> Escaped("OSError", <<>>), files |-> written,
              wrote |-> FALSE, ingest_calls |-> 0]
        ELSE IF ingest.kind = "raise"
        THEN [response |-> HTTPException(500, ingest.err), files |-> cleaned,
              wrote |-> TRUE, ingest_calls |-> 1]
        ELSE [response |-> [kind |-> "return", status_code |-> 200,
                            doc_id |-> ingest.doc_id, message |-> ProcessedMsg],
              files |-> cleaned, wrote |-> TRUE, ingest_calls |-> 1]

upload_pdfMut(files, content_type, filename, copy, ingest) ==
    LET r == SaveAndIngest(files, filename, copy, ingest) IN
    IF content_type # PdfType /\ r.response.kind = "return"
    THEN [response |-> HTTPException(400, FileMustBePdf), files |-> r.files,
          wrote |-> r.wrote, ingest_calls |-> r.ingest_calls]
    ELSE r

upload_pdf(files, content_type, filename, copy, ingest) ==
    IF content_type # PdfType
    THEN [response |-> HTTPException(400, FileMustBePdf), files |-> files,
          wrote |-> FALSE, ingest_calls |-> 0]
    ELSE SaveAndIngest(files, filename, copy, ingest)

\* ------------------------------------------------------------------ /chat
\* every turn is rendered as a user turn
RECURSIVE history_textMut(_)
history_textMut(history) ==
    IF history = <<>> THEN <<>>
    ELSE UserPrefix \o ColonSpace \o Head(history).content \o <<NL>>
         \o history_textMut(Tail(history))

RECURSIVE history_text(_)
history_text(history) ==
    IF history = <<>> THEN <<>>
    ELSE LET msg    == Head(history)
             prefix == IF msg.role = "user" THEN UserPrefix ELSE AssistantPrefix
         IN  prefix \o ColonSpace \o msg.content \o <<NL>> \o history_text(Tail(history))

question_with_history(request) ==
    (IF request.has_history THEN history_text(request.history) ELSE <<>>)
    \o UserPrefix \o ColonSpace \o request.question

MakeSource(doc) ==
    [page_number |-> doc.page_number,
     snippet |-> SubSeq(doc.page_content, 1, Min(SnippetLimit, Len(doc.page_content)))
                 \o Ellipsis]

RECURSIVE MakeSources(_)
MakeSources(docs) ==
    IF docs = <<>> THEN <<>> ELSE <<MakeSource(Head(docs))>> \o MakeSources(Tail(docs))

\* the exception of save_interaction reaches the client
SwallowMut(saved, request, answer, sources, now) ==
    [response |-> IF saved.raised = "none"
                  THEN [kind |-> "return", status_code |-> 200,
                        answer |-> answer, sources |-> sources]
                  ELSE Escaped(saved.raised, <<>>),
     file |-> saved.file,
     save |-> <<[now |-> now, doc_id |-> request.doc_id, question |-> request.question,
                 answer |-> answer, raised |-> saved.raised]>>]

\* except Exception as e: print(...); return ChatResponse(answer=answer, sources=sources)
Swallow(saved, request, answer, sources, now) ==
    [response |-> [kind |-> "return", status_code |-> 200,
                   answer |-> answer, sources |-> sources],
     file |-> saved.file,
     save |-> <<[now |-> now, doc_id |-> request.doc_id, question |-> request.question,
                 answer |-> answer, raised |-> saved.raised]>>]

\* try: save_interaction(request.doc_id, request.question, answer) ...
LogAndReturn(file, request, answer, sources, now, io) ==
    Swallow(save_interaction(file, now, request.doc_id, request.question, answer, io),
            request, answer, sources, now)

\* a result without "answer" is read as an empty answer: result.get("answer", "")
ReplyMut(prompt, invoke) ==
    IF invoke.kind = "raise"
    THEN [ok |-> FALSE, response |-> Escaped("Exception", invoke.err),
          invoked |-> TRUE, prompt |-> prompt]
    ELSE [ok |-> TRUE, invoked |-> TRUE, prompt |-> prompt, answer |-> invoke.answer,
          sources |-> MakeSources(IF invoke.has_docs THEN invoke.docs ELSE <<>>)]

\* the chain's reply, as the handler reads it
Reply(prompt, invoke) ==
    IF invoke.kind = "raise"
    THEN [ok |-> FALSE, response |-> Escaped("Exception", invoke.err),
          invoked |-> TRUE, prompt |-> prompt]
    ELSE IF ~invoke.has_answer
    THEN [ok |-> FALSE, response |-> Escaped("KeyError", <<>>),
          invoked |-> TRUE, prompt |-> prompt]
    ELSE [ok |-> TRUE, invoked |-> TRUE, prompt |-> prompt, answer |-> invoke.answer,
          sources |-> MakeSources(IF invoke.has_docs THEN invoke.docs ELSE <<>>)]

\* chat_with_doc up to the logging step: build the chain, flatten the
\* history, invoke, take the answer, map the sources
AskChain(request, build, invoke) ==
    IF build.kind = "raise"
    THEN [ok |-> FALSE, response |-> HTTPException(500, BuildErrPrefix \o build.err),
          invoked |-> FALSE, prompt |-> <<>>]
    ELSE Reply(question_with_history(request), invoke)

Failed(asked, file) ==
    [response |-> asked.response, file |-> file,
     invoked |-> asked.invoked, prompt |-> asked.prompt, save |-> <<>>]
Returned(asked, done) ==
    [response |-> done.response, file |-> done.file,
     invoked |-> TRUE, prompt |-> asked.prompt, save |-> done.save]

\* the logging step and the response, reached only with an answer
LogIfAnswered(asked, file, request, now, io) ==
    IF ~asked.ok
    THEN Failed(asked, file)
    ELSE Returned(asked, LogAndReturn(file, request, asked.answer, asked.sources, now, io))

\* chat_with_doc as a function of the request, of what build_qa_chain and the
\* chain's invoke do, of the clock and of the disk during save_interaction.
chat_with_doc(file, request, build, invoke, now, io) ==
    LogIfAnswered(AskChain(request, build, invoke), file, request, now, io)

\* ------------------------------------------------------------------ state
VARIABLES
    logFile,    \* data/conversations.json: whether it exists, and its text
    tmpFiles,   \* paths of the files that exist because of uploads
    clock,      \* readings of datetime.now() taken so far
    response,   \* what the last request's handler ended with
    lastReq,    \* the last request and what its handler did to its collaborators
    saveCalls,  \* history: the save_interaction calls made so far, in order
    pc,         \* overlapping chats: where each one's handler is
    loc         \* overlapping chats: each one's local variables

vars == <<logFile, tmpFiles, clock, response, lastReq, saveCalls, pc, loc>>

Procs == {1, 2}
IdleLoc == [logged |-> FALSE]

\* ----------------------------------------------------------------- inputs
ContentTypes == {PdfType, "text/plain", "Application/PDF"}
Filenames    == {"a.pdf"}
CopyOutcomes == {"ok", "open_error", "copy_error"}
ErrText      == <<"e">>
IngestOutcomes ==
    {[kind |-> "return", doc_id |-> <<"d">>, err |-> <<>>, removes |-> r] : r \in BOOLEAN}
    \cup {[kind |-> "raise", doc_id |-> <<>>, err |-> ErrText, removes |-> FALSE]}

BuildOutcomes ==
    {[kind |-> "return", err |-> <<>>], [kind |-> "raise", err |-> ErrText]}

RECURSIVE Repeat(_, _)
Repeat(c, n) == IF n = 0 THEN <<>> ELSE <<c>> \o Repeat(c, n - 1)

ShortDoc == [page_content |-> <<"x">>, page_number |-> <<>>]
LongDoc  == [page_content |-> Repeat("x", SnippetLimit + 1), page_number |-> <<3>>]

Result(answer, has_docs, docs) ==
    [kind |-> "return", err |-> <<>>, has_answer |-> TRUE, answer |-> answer,
     has_docs |-> has_docs, docs |-> docs]
InvokeRaise == [kind |-> "raise", err |-> ErrText, has_answer |-> FALSE, answer |-> <<>>,
                has_docs |-> FALSE, docs |-> <<>>]
InvokeNoAnswer == [kind |-> "return", err |-> <<>>, has_answer |-> FALSE, answer |-> <<>>,
                   has_docs |-> FALSE, docs |-> <<>>]

NotInvoked == [kind |-> "none", err |-> <<>>, has_answer |-> FALSE, answer |-> <<>>,
               has_docs |-> FALSE, docs |-> <<>>]

Answers == {<<"a">>, <<Surrogate>>}
InvokeOutcomes ==
    {InvokeRaise, InvokeNoAnswer}
    \cup {Result(a, FALSE, <<>>) : a \in Answers}
    \cup {Result(<<"a">>, TRUE, <<ShortDoc, LongDoc>>)}

Request(doc_id, question, has_history, history) ==
    [doc_id |-> doc_id, question |-> question,
     has_history |-> has_history, history |-> history]
Message(role, content) == [role |-> role, content |-> content]

Requests ==
    {Request(<<"d">>, <<"q">>, FALSE, <<>>),
     Request(<<"d">>, <<"r">>, TRUE, <<Message("user", <<"h">>)>>)}

\* datetime.now().isoformat() at the n-th reading of the clock
IsoFormat(n) == <<ToString(n)>>

\* the disk works, or fails the read, the open for writing, or the first write
IoOutcomes == {IoOk, IoReadError, IoOpenWError, IoWriteError(0)}

\* ------------------------------------------------------------------- Init
Init ==
    /\ logFile = Absent
    /\ tmpFiles = {}
    /\ clock = 0
    /\ response = NoResponse
    /\ lastReq = [endpoint |-> "none"]
    /\ saveCalls = <<>>
    /\ pc = [p \in Procs |-> "idle"]
    /\ loc = [p \in Procs |-> IdleLoc]

\* ---------------------------------------------------------------- actions
\* POST /upload-pdf, run to its response
UploadPdf(content_type, filename, copy, ingest) ==
    \E r \in {upload_pdf(tmpFiles, content_type, filename, copy, ingest)} :
    /\ response' = r.response
    /\ tmpFiles' = r.files
    /\ lastReq' = [endpoint |-> "upload", content_type |-> content_type,
                   path |-> PathJoin(TempDir, filename), wrote |-> r.wrote,
                   ingest_calls |-> r.ingest_calls,
                   ingest |-> IF r.ingest_calls > 0 THEN ingest.kind ELSE "none"]
    /\ UNCHANGED <<logFile, clock, saveCalls, pc, loc>>

\* POST /chat, run to its response
ChatWithDoc(request, build, invoke, io) ==
    \E r \in {chat_with_doc(logFile, request, build, invoke, IsoFormat(clock + 1), io)} :
    /\ Len(saveCalls) + Len(r.save) <= MaxCalls
    /\ clock' = clock + Len(r.save)
    /\ response' = r.response
    /\ logFile' = r.file
    /\ saveCalls' = saveCalls \o r.save
    /\ lastReq' = [endpoint |-> "chat", request |-> request, build |-> build.kind,
                   invoked |-> r.invoked, prompt |-> r.prompt,
                   invoke |-> IF r.invoked THEN invoke ELSE NotInvoked,
                   io |-> IF r.save # <<>> THEN io ELSE IoOk, saved |-> r.save]
    /\ UNCHANGED <<tmpFiles, pc, loc>>

Upload ==
    \E ct \in ContentTypes, fn \in Filenames, copy \in CopyOutcomes, ing \in IngestOutcomes :
        UploadPdf(ct, fn, copy, ing)

Chat ==
    \E req \in Requests, b \in BuildOutcomes, inv \in InvokeOutcomes, io \in IoOutcomes :
        ChatWithDoc(req, b, inv, io)

Next == Upload \/ Chat

Spec == Init /\ [][Next]_vars

\* ------------------------------------------- the prompt, over many requests
BuildReturn == [kind |-> "return", err |-> <<>>]
Roles       == {"user", "assistant", "system"}
Texts       == StrUpTo({"a", NL}, MaxStrLen)
Messages    == {Message(r, c) : r \in Roles, c \in Texts}
Histories   == UNION {[1..n -> Messages] : n \in 0..MaxHistory}
PromptRequests ==
    {Request(<<"d">>, q, TRUE, h) : q \in Texts, h \in Histories}
    \cup {Request(<<"d">>, q, FALSE, <<>>) : q \in Texts}

\* one chat request, drawn from PromptRequests, handled from the initial state
PromptChat ==
    /\ response = NoResponse
    /\ \E req \in PromptRequests, inv \in {InvokeRaise, Result(<<"a">>, FALSE, <<>>)} :
          ChatWithDoc(req, BuildReturn, inv, IoOk)

NextPrompt == PromptChat

SpecPrompt == Init /\ [][NextPrompt]_vars

\* ------------------------------------------------- two chats that overlap
\* The handlers of two chat requests, with the read of the log and its
\* rewrite inside save_interaction as two steps that the other request's
\* steps may come between.
\* the handler up to the first line of save_interaction (the clock is read there)
RaceBegin(p, request, build, invoke) ==
    LET asked == AskChain(request, build, invoke) IN
    /\ pc[p] = "idle"
    /\ IF ~asked.ok
       THEN /\ pc' = [pc EXCEPT ![p] = "done"]
            /\ loc' = [loc EXCEPT ![p] = [response |-> asked.response, logged |-> FALSE]]
            /\ clock' = clock
       ELSE /\ pc' = [pc EXCEPT ![p] = "read"]
            /\ loc' = [loc EXCEPT ![p] =
                         [request |-> request, answer |-> asked.answer,
                          sources |-> asked.sources, now |-> IsoFormat(clock + 1)]]
            /\ clock' = clock + 1
    /\ UNCHANGED <<logFile, tmpFiles, response, lastReq, saveCalls>>

RaceCall(l, raised) ==
    [now |-> l.now, doc_id |-> l.request.doc_id, question |-> l.request.question,
     answer |-> l.answer, raised |-> raised]
RaceReturn(l, raised, seen, order) ==
    [response |-> [kind |-> "return", status_code |-> 200,
                   answer |-> l.answer, sources |-> l.sources],
     logged |-> TRUE, call |-> RaceCall(l, raised), seen |-> seen, order |-> order]

\* if DATA_FILE.exists(): ... conversations = json.load(f); conversations.append(record)
RaceRead(p, io) ==
    LET l  == loc[p]
        rd == ReadLog(logFile, io)
        raised == IF rd.raised # "none" THEN rd.raised
                  ELSE IF rd.kind # "list" THEN "AttributeError" ELSE "none"
    IN
    /\ pc[p] = "read"
    /\ IF raised # "none"
       THEN /\ pc' = [pc EXCEPT ![p] = "done"]
            /\ loc' = [loc EXCEPT ![p] =
                         RaceReturn(l, raised, Len(saveCalls), Len(saveCalls) + 1)]
            /\ saveCalls' = Append(saveCalls, RaceCall(l, raised))
       ELSE /\ pc' = [pc EXCEPT ![p] = "write"]
            /\ loc' = [loc EXCEPT ![p] =
                         [request |-> l.request, answer |-> l.answer, sources |-> l.sources,
                          now |-> l.now, seen |-> Len(saveCalls),
                          conversations |->
                              Append(rd.val, MakeRecord(l.now, l.request.doc_id,
                                                        l.request.question, l.answer))]]
            /\ saveCalls' = saveCalls
    /\ UNCHANGED <<logFile, tmpFiles, clock, response, lastReq>>

\* with open(DATA_FILE, "w") ...: json.dump(conversations, ...); then the response
RaceWrite(p, io) ==
    LET l == loc[p]
        w == WriteLog(logFile, l.conversations, io)
    IN
    /\ pc[p] = "write"
    /\ logFile' = w.file
    /\ pc' = [pc EXCEPT ![p] = "done"]
    /\ loc' = [loc EXCEPT ![p] = RaceReturn(l, w.raised, l.seen, Len(saveCalls) + 1)]
    /\ saveCalls' = Append(saveCalls, RaceCall(l, w.raised))
    /\ UNCHANGED <<tmpFiles, clock, response, lastReq>>

RaceAnswers == {<<"a">>}
RaceInvokeOutcomes == {InvokeRaise} \cup {Result(a, FALSE, <<>>) : a \in RaceAnswers}

Begin == \E p \in Procs, req \in Requests, b \in BuildOutcomes, inv \in RaceInvokeOutcomes :
            RaceBegin(p, req, b, inv)
Read  == \E p \in Procs, io \in IoOutcomes : RaceRead(p, io)
Write == \E p \in Procs, io \in IoOutcomes : RaceWrite(p, io)

NextRace == Begin \/ Read \/ Write

SpecRace == Init /\ [][NextRace]_vars

\* ------------------------------------------------- properties: /upload-pdf
LastUpload == lastReq.endpoint = "upload"
LastChat   == lastReq.endpoint = "chat"

\* C1: an upload whose declared content type is not exactly "application/pdf"
\* ends with HTTP 400, detail "File must be a PDF.", and ingest_pdf was not
\* called during the request.
C1_NonPdfRejected ==
    (LastUpload /\ lastReq.content_type # PdfType)
        => /\ response = HTTPException(400, FileMustBePdf)
           /\ lastReq.ingest_calls = 0

\* a text/plain upload has been answered
C1_Witness ==
    /\ LastUpload
    /\ lastReq.content_type = "text/plain"
    /\ response.kind = "HTTPException"
    /\ response.status_code = 400

\* C2: once upload_pdf has answered a request that passed the content-type
\* check and wrote its temp file, that file no longer exists, both on 200
\* (ingest_pdf returned) and on 500 (ingest_pdf raised).
C2_TempFileRemoved ==
    (LastUpload /\ lastReq.wrote)
        => /\ lastReq.path \notin tmpFiles
           /\ \/ response.kind = "return" /\ response.status_code = 200
              \/ response.kind = "HTTPException" /\ response.status_code = 500

\* ingest_pdf raised, left the file in place, and the 500 has been produced
C2_Witness ==
    /\ LastUpload
    /\ lastReq.wrote
    /\ lastReq.ingest = "raise"
    /\ response = HTTPException(500, ErrText)
    /\ lastReq.path \notin tmpFiles

\* ------------------------------------------------------ properties: /chat
BuildFailed  == LastChat /\ lastReq.build = "raise"
InvokeFailed == LastChat /\ lastReq.invoked /\ lastReq.invoke.kind = "raise"
Answered     == LastChat /\ lastReq.invoked /\ lastReq.invoke.kind = "return"
                /\ lastReq.invoke.has_answer

\* C3: a chat whose build_qa_chain raises or whose chain invoke raises ends
\* with an HTTP 500 error produced by the handler, its detail carrying the
\* failure's text; neither failure leaves the handler untranslated.
C3_FailuresTranslated ==
    (BuildFailed \/ InvokeFailed)
        => /\ response.kind = "HTTPException"
           /\ response.status_code = 500
           /\ IsSuffix(ErrText, response.detail)

\* C5: when the chain was built and invoked and the answer extracted, the
\* response is the 200 ChatResponse with the chain's answer and sources,
\* whatever save_interaction did.
C5_LoggingFailureSwallowed ==
    Answered
        => response = [kind |-> "return", status_code |-> 200,
                       answer |-> lastReq.invoke.answer,
                       sources |-> MakeSources(IF lastReq.invoke.has_docs
                                               THEN lastReq.invoke.docs ELSE <<>>)]

\* save_interaction raised during the request, which still answered 200
C5_Witness ==
    /\ Answered
    /\ lastReq.saved # <<>>
    /\ lastReq.saved[1].raised # "none"
    /\ response.kind = "return"

\* ------------------------------------------------- properties: the log
\* what json.load makes of the file
Parsed(file) == json_load(file.content)
\* the file is there and its text is not JSON
Unparseable(file) == file.exists /\ ~Parsed(file).ok
\* the records a reader of the log finds
Records(file) ==
    IF file.exists /\ Parsed(file).ok /\ Parsed(file).kind = "list"
    THEN Parsed(file).val ELSE <<>>

CallRecord(call) == MakeRecord(call.now, call.doc_id, call.question, call.answer)
AllReturned(calls) == \A i \in 1..Len(calls) : calls[i].raised = "none"
ArgsEncodable(call) ==
    Encodable(call.doc_id) /\ Encodable(call.question) /\ Encodable(call.answer)

\* the request of this step called save_interaction
SavedInStep == lastReq'.endpoint = "chat" /\ lastReq'.saved # <<>> /\ saveCalls' # saveCalls

C7_AppendOnly == [][IsPrefix(Records(logFile), Records(logFile'))]_vars

RECURSIVE SplitLines(_, _, _)
SplitLines(s, cur, acc) ==
    IF s = <<>> THEN Append(acc, cur)
    ELSE IF Head(s) = NL THEN SplitLines(Tail(s), <<>>, Append(acc, cur))
    ELSE SplitLines(Tail(s), Append(cur, Head(s)), acc)
\* str.split("\n")
Lines(s) == SplitLines(s, <<>>, <<>>)

Turns(request) == IF request.has_history THEN request.history ELSE <<>>
TurnLine(msg) ==
    (IF msg.role = "user" THEN UserPrefix ELSE AssistantPrefix) \o ColonSpace \o msg.content
QuestionLine(request) == UserPrefix \o ColonSpace \o request.question

RECURSIVE NewlinesIn(_)
NewlinesIn(turns) ==
    IF turns = <<>> THEN 0 ELSE Count(Head(turns).content, NL) + NewlinesIn(Tail(turns))

Invoked == LastChat /\ lastReq.invoked

\* C6 as stated: the prompt ends with "User: " + question, and has exactly
\* len(history) + 1 lines, the i-th being the i-th turn's, prefixed "User: "
\* for role "user" and "Assistant: " otherwise.
C6_OneLinePerTurn ==
    Invoked
        => LET req == lastReq.request
               n   == Len(Turns(req))
               ls  == Lines(lastReq.prompt)
           IN  /\ IsSuffix(QuestionLine(req), lastReq.prompt)
               /\ Len(ls) = n + 1
               /\ \A i \in 1..n : IsPrefix(TurnLine(Turns(req)[i]), ls[i])
               /\ ls[n + 1] = QuestionLine(req)

\* C6, amended: the prompt ends with "User: " + question; the i-th turn's
\* text, with its prefix, starts a line, after the lines of the turns before
\* it; the prompt has len(history) + 1 lines plus one for every newline
\* inside a turn's content or the question, so exactly one line per turn
\* when these hold no newline.
C6_PromptShape ==
    Invoked
        => LET req   == lastReq.request
               turns == Turns(req)
               n     == Len(turns)
               ls    == Lines(lastReq.prompt)
               start(i) == i + NewlinesIn(SubSeq(turns, 1, i - 1))
           IN  /\ IsSuffix(QuestionLine(req), lastReq.prompt)
               /\ Len(ls) = n + 1 + NewlinesIn(turns) + Count(req.question, NL)
               /\ \A i \in 1..n :
                    SubSeq(ls, start(i), start(i) + Count(turns[i].content, NL))
                        = Lines(TurnLine(turns[i]))
               /\ SubSeq(ls, start(n + 1), Len(ls)) = Lines(QuestionLine(req))
               /\ (NewlinesIn(turns) + Count(req.question, NL) = 0)
                    => /\ Len(ls) = n + 1
                       /\ \A i \in 1..n : ls[i] = TurnLine(turns[i])
                       /\ ls[n + 1] = QuestionLine(req)

\* a history of a user turn and a turn of another role, no newline anywhere
C6_Witness ==
    /\ Invoked
    /\ Len(Turns(lastReq.request)) = 2
    /\ lastReq.request.history[1].role = "user"
    /\ lastReq.request.history[2].role = "system"
    /\ lastReq.request.history[2].content # <<>>
    /\ NewlinesIn(Turns(lastReq.request)) + Count(lastReq.request.question, NL) = 0
    /\ Len(Lines(lastReq.prompt)) = 3

\* ------------------------------------------ properties: overlapping chats
BothLogged ==
    \A p \in Procs : pc[p] = "done" /\ loc[p].logged /\ loc[p].call.raised = "none"

\* C9: when both chats have answered 200 and both save_interaction calls
\* returned, the log holds the record of the one that wrote last, preceded by
\* the other's only if the last writer read the file after the other wrote;
\* otherwise the other's record is lost.
C9_LastWriterWins ==
    BothLogged
        => \A p, q \in Procs :
             (loc[p].order > loc[q].order)
                => Records(logFile) =
                       IF loc[p].seen >= loc[q].order
                       THEN <<CallRecord(loc[q].call), CallRecord(loc[p].call)>>
                       ELSE <<CallRecord(loc[p].call)>>

\* both chats answered 200, both calls returned, one record is in the log
C9_Witness ==
    /\ BothLogged
    /\ \A p \in Procs : loc[p].response.status_code = 200
    /\ Len(saveCalls) = 2
    /\ Len(Records(logFile)) = 1

====
